---- MODULE Spec2Model ----
(***************************************************************************)
(* Model of ocdeployer/images.py: the images-config parser (parse_config, *)
(* _parse_old_style, _parse_new_style, _parse_istag) and the import loop   *)
(* (import_images, ImageImporter.do_import, ImageImporter._retag_image).   *)
(*                                                                         *)
(* Python values are records [t, s, l]: t is the Python type, s the        *)
(* characters of a str (for an int or None: the characters str() gives),   *)
(* l the elements of a list.  A str is a sequence of one-character         *)
(* strings, so that "in", concatenation and formatting are computed.       *)
(* A dict is the sequence of its items [k, v] in insertion order.          *)
(***************************************************************************)
EXTENDS Integers, Sequences, FiniteSets, TLC

VARIABLES config, env_names, pc, images, idx, calls, logs, imported_istags, exc

vars == <<config, env_names, pc, images, idx, calls, logs, imported_istags, exc>>

-----------------------------------------------------------------------------
\* Python values

PyStr(chars) == [t |-> "str", s |-> chars, l |-> <<>>]

PyInt(digits) == [t |-> "int", s |-> digits, l |-> <<>>]

PyNone == [t |-> "none", s |-> <<"N", "o", "n", "e">>, l |-> <<>>]

PyList(elems) == [t |-> "list", s |-> <<>>, l |-> elems]

\* An entry of the images list: a dict (its items in d) or any other value.
PyDict(items) == [t |-> "dict", s |-> <<>>, l |-> <<>>, d |-> items]

NotDict(v) == [t |-> v.t, s |-> v.s, l |-> v.l, d |-> <<>>]

Item(key, value) == [k |-> key, v |-> value]

isinstance_str(v) == v.t = "str"

\* k in img
HasKey(img, key) == \E i \in 1..Len(img.d) : img.d[i].k = key

\* img[k], for a key the dict holds
GetItem(img, key) == img.d[CHOOSE i \in 1..Len(img.d) : img.d[i].k = key].v

\* repr() of a str, an int or None (the strings of the model hold no quote
\* and no backslash, so repr only adds the quotes)
Repr(v) == IF v.t = "str" THEN <<"'">> \o v.s \o <<"'">> ELSE v.s

RECURSIVE JoinRepr(_)
JoinRepr(elems) ==
    IF elems = <<>> THEN <<>>
    ELSE IF Len(elems) = 1 THEN Repr(elems[1])
    ELSE Repr(elems[1]) \o <<",", " ">> \o JoinRepr(Tail(elems))

\* format(v, ""), what an f-string puts for {v}
Format(v) == IF v.t = "list" THEN <<"[">> \o JoinRepr(v.l) \o <<"]">> ELSE v.s

-----------------------------------------------------------------------------
\* Results of a call: a returned value, or a raised exception

Return(value) == [exc |-> "none", msg |-> "", val |-> value]

Raise(cls, message) == [exc |-> cls, msg |-> message, val |-> <<>>]

LATEST == <<":", "l", "a", "t", "e", "s", "t">>

ISTAG == PyStr(<<"i", "s", "t", "a", "g">>)

FROM == PyStr(<<"f", "r", "o", "m">>)

ENVS == PyStr(<<"e", "n", "v", "s">>)

\* ":" in istag: a substring test on a str, a membership test on a list, a
\* TypeError on a value that is not a container
ColonIn(istag) ==
    IF istag.t = "str" THEN \E i \in 1..Len(istag.s) : istag.s[i] = ":"
    ELSE \E i \in 1..Len(istag.l) : istag.l[i] = PyStr(<<":">>)

_parse_istag_always_append(istag) ==
    IF istag.t \notin {"str", "list"}
    THEN Raise("TypeError", "argument is not iterable")
    ELSE Return(PyStr(Format(istag) \o LATEST))

_parse_istag(istag) ==
    IF istag.t \notin {"str", "list"}
    THEN Raise("TypeError", "argument is not iterable")
    ELSE IF ~ColonIn(istag)
    THEN Return(PyStr(Format(istag) \o LATEST))
    ELSE Return(istag)

\* utils.validate_list_of_strs
validate_list_of_strs(list_) ==
    IF list_.t # "list" \/ \E i \in 1..Len(list_.l) : ~isinstance_str(list_.l[i])
    THEN Raise("ValueError", "not a list of strings")
    ELSE Return(list_)

ImageData(istag, _from, envs) == [istag |-> istag, from |-> _from, envs |-> envs]

IsLongForm(img) == Len(img.d) >= 2 /\ HasKey(img, ISTAG) /\ HasKey(img, FROM)

IsShortForm_no_reserved(img) == Len(img.d) = 1

IsShortForm(img) ==
    /\ Len(img.d) = 1
    /\ ~HasKey(img, ISTAG) /\ ~HasKey(img, FROM) /\ ~HasKey(img, ENVS)

\* the type checks that end an iteration of _parse_new_style
CheckEntry(istag, _from, envs) ==
    IF ~isinstance_str(istag) \/ ~isinstance_str(_from)
    THEN Raise("ValueError", "'istag' and 'from' must be a of type 'string'")
    ELSE IF validate_list_of_strs(envs).exc # "none"
    THEN validate_list_of_strs(envs)
    ELSE Return(ImageData(istag, _from, envs))

\* one iteration of the loop of _parse_new_style
ParseEntry(img) ==
    IF img.t # "dict"
    THEN Raise("ValueError", "entries in 'images' must be of type 'dict'")
    ELSE IF IsLongForm(img)
    THEN LET r == _parse_istag(GetItem(img, ISTAG))
             envs == IF HasKey(img, ENVS) THEN GetItem(img, ENVS) ELSE PyList(<<>>)
         IN  IF r.exc # "none" THEN r
             ELSE CheckEntry(r.val, GetItem(img, FROM), envs)
    ELSE IF IsShortForm(img)
    THEN LET r == _parse_istag(img.d[1].k)
         IN  IF r.exc # "none" THEN r
             ELSE CheckEntry(r.val, img.d[1].v, PyList(<<>>))
    ELSE Raise("ValueError", "Unknown syntax for 'images' section of config")

RECURSIVE ParseNewFrom(_, _, _)
ParseNewFrom(entries, i, parsed_images) ==
    IF i > Len(entries) THEN Return(parsed_images)
    ELSE LET r == ParseEntry(entries[i])
         IN  IF r.exc # "none" THEN r
             ELSE ParseNewFrom(entries, i + 1, Append(parsed_images, r.val))

RECURSIVE SkipBadFrom(_, _, _)
SkipBadFrom(entries, i, parsed_images) ==
    IF i > Len(entries) THEN Return(parsed_images)
    ELSE LET r == ParseEntry(entries[i])
         IN  IF r.exc # "none" THEN SkipBadFrom(entries, i + 1, parsed_images)
             ELSE SkipBadFrom(entries, i + 1, Append(parsed_images, r.val))

_parse_new_style_skip_bad(entries) == SkipBadFrom(entries, 1, <<>>)

_parse_new_style(entries) == ParseNewFrom(entries, 1, <<>>)

RECURSIVE ParseOldFrom(_, _, _)
ParseOldFrom(items, i, parsed_images) ==
    IF i > Len(items) THEN Return(parsed_images)
    ELSE IF ~isinstance_str(items[i].k) \/ ~isinstance_str(items[i].v)
    THEN Raise("ValueError", "keys and values in 'images' must be a of type 'string'")
    ELSE ParseOldFrom(items, i + 1,
             Append(parsed_images,
                    ImageData(_parse_istag(items[i].k).val, items[i].v, PyList(<<>>))))

_parse_old_style(items) == ParseOldFrom(items, 1, <<>>)

\* config is [has |-> "images" in config, t |-> type of config["images"],
\*            d |-> its items when a dict, e |-> its entries when a list]
parse_config(cfg) ==
    IF cfg.has /\ cfg.t = "dict" THEN _parse_old_style(cfg.d)
    ELSE IF cfg.has /\ cfg.t = "list" THEN _parse_new_style(cfg.e)
    ELSE Return(<<>>)

-----------------------------------------------------------------------------
\* The external tool

\* "use the 'tag' command if you want to change the source"
CONFLICT_PHRASE ==
    <<
      "u", "s", "e", " ", "t", "h", "e", " ", "'", "t", "a", "g",
      "'", " ", "c", "o", "m", "m", "a", "n", "d", " ", "i", "f",
      " ", "y", "o", "u", " ", "w", "a", "n", "t", " ", "t", "o",
      " ", "c", "h", "a", "n", "g", "e", " ", "t", "h", "e", " ",
      "s", "o", "u", "r", "c", "e"
    >>

\* needle in haystack, for two str
IsSubstring(needle, haystack) ==
    \E i \in 0..(Len(haystack) - Len(needle)) :
        SubSeq(haystack, i + 1, i + Len(needle)) = needle

\* The texts str(err.stderr) can be, that is the text the "in" test of
\* do_import reads: the phrase alone, the phrase inside a longer message,
\* the phrase cut short, and an unrelated message.
StderrTexts ==
    { CONFLICT_PHRASE,
      <<"e", "r", "r", ":", " ">> \o CONFLICT_PHRASE \o <<" ", "t", "o">>,
      SubSeq(CONFLICT_PHRASE, 1, Len(CONFLICT_PHRASE) - 1),
      <<"n", "o", "t", " ", "f", "o", "u", "n", "d">> }

\* What oc(..., _reraise=True) does: returns, or raises ErrorReturnCode
OcResults ==
    {[rc |-> "ok", stderr |-> <<>>]}
        \cup {[rc |-> "ErrorReturnCode", stderr |-> e] : e \in StderrTexts}

\* the arguments of oc("import-image", istag, "--from=...", "--confirm", ...)
OcImport(istag, image_from) ==
    [cmd |-> "import-image", istag |-> istag, from |-> image_from]

_retag_image_swapped(istag, image_from) ==
    [cmd |-> "tag", istag |-> image_from, from |-> istag]

\* the arguments of oc("tag", "--scheduled=True", "--source=docker", ...)
_retag_image(istag, image_from) ==
    [cmd |-> "tag", istag |-> istag, from |-> image_from]

\* An entry of the history of oc invocations: the arguments, what the
\* invocation did (rc, stderr), and the position at of the image the loop of
\* import_images was processing.  The result of the re-tag is not looked at
\* by do_import and is recorded as "unchecked".
Call(args, res) == [oc |-> args, at |-> idx, rc |-> res.rc, stderr |-> res.stderr]

\* An entry of the history of log records
Log(level, message, istag) ==
    [level |-> level, msg |-> message, istag |-> istag, at |-> idx]

InSeq(x, seq) == \E i \in 1..Len(seq) : seq[i] = x

\* ImageImporter.do_import, with res what the import-image invocation does
do_import(istag, image_from, res) ==
    LET logs1 == IF InSeq(istag, imported_istags)
                 THEN Append(logs, Log("warning", "already imported", istag))
                 ELSE logs
        calls1 == Append(calls, Call(OcImport(istag, image_from), res))
    IN  /\ IF res.rc = "ok"
           THEN /\ logs' = logs1
                /\ calls' = calls1
           ELSE /\ logs' = Append(logs1, Log("warning", "re-tagging", istag))
                /\ IF IsSubstring(CONFLICT_PHRASE, res.stderr)
                   THEN calls' = Append(calls1,
                            Call(_retag_image(istag, image_from),
                                 [rc |-> "unchecked", stderr |-> <<>>]))
                   ELSE calls' = calls1
        /\ UNCHANGED <<imported_istags, exc>>

-----------------------------------------------------------------------------
\* import_images

Eligible_all(img_data, names) ==
    \/ Len(img_data.envs.l) = 0
    \/ \A i \in 1..Len(img_data.envs.l) : img_data.envs.l[i] \in names

\* not img_data["envs"] or any([e in env_names for e in img_data["envs"]])
Eligible(img_data, names) ==
    \/ Len(img_data.envs.l) = 0
    \/ \E i \in 1..Len(img_data.envs.l) : img_data.envs.l[i] \in names

NoException == [exc |-> "none", msg |-> ""]

\* images = parse_config(config)
ParseConfig ==
    /\ pc = "start"
    /\ LET r == parse_config(config)
       IN  IF r.exc = "none"
           THEN /\ images' = r.val
                /\ idx' = 1
                /\ pc' = "loop"
                /\ exc' = exc
           ELSE /\ exc' = [exc |-> r.exc, msg |-> r.msg]
                /\ pc' = "raised"
                /\ UNCHANGED <<images, idx>>
    /\ UNCHANGED <<config, env_names, calls, logs, imported_istags>>

\* a loop iteration that imports
ImportImage ==
    /\ pc = "loop"
    /\ idx <= Len(images)
    /\ Eligible(images[idx], env_names)
    /\ \E res \in OcResults : do_import(images[idx].istag, images[idx].from, res)
    /\ idx' = idx + 1
    /\ UNCHANGED <<config, env_names, pc, images>>

\* a loop iteration that skips
SkipImage ==
    /\ pc = "loop"
    /\ idx <= Len(images)
    /\ ~Eligible(images[idx], env_names)
    /\ logs' = Append(logs, Log("info", "skipping", images[idx].istag))
    /\ idx' = idx + 1
    /\ UNCHANGED <<config, env_names, pc, images, calls, imported_istags, exc>>

\* the loop ends and import_images returns
ReturnNone ==
    /\ pc = "loop"
    /\ idx > Len(images)
    /\ pc' = "done"
    /\ UNCHANGED <<config, env_names, images, idx, calls, logs, imported_istags, exc>>

-----------------------------------------------------------------------------
\* The inputs: configs and active environments

MaxImages == 2

MaxTagLen == 2

TagChars == {"a", ":"}

SeqsUpTo(S, n) == UNION {[1..k -> S] : k \in 0..n}

Tags == SeqsUpTo(TagChars, MaxTagLen)

A == PyStr(<<"a">>)

B == PyStr(<<"b">>)

B1 == PyStr(<<"b", ":", "1">>)

X == PyStr(<<"x">>)

Y == PyStr(<<"y">>)

EMPTY == PyStr(<<>>)

FIVE == PyInt(<<"5">>)

PROD == PyStr(<<"p", "r", "o", "d">>)

STAGE == PyStr(<<"s", "t", "a", "g", "e">>)

DEV == PyStr(<<"d", "e", "v">>)

LongForm(istag, _from) == PyDict(<<Item(ISTAG, istag), Item(FROM, _from)>>)

LongFormEnvs(istag, _from, envs) ==
    PyDict(<<Item(ISTAG, istag), Item(FROM, _from), Item(ENVS, envs)>>)

ShortForm(istag, _from) == PyDict(<<Item(istag, _from)>>)

\* entries that hold a tag and a source
ShapedEntries ==
    { LongForm(A, X),
      LongFormEnvs(A, X, PyList(<<STAGE, PROD>>)),
      PyDict(<<Item(FROM, Y), Item(ENVS, PyList(<<DEV>>)), Item(ISTAG, B1)>>),
      ShortForm(B, Y),
      LongFormEnvs(A, EMPTY, PyList(<<>>)),
      LongForm(PyList(<<A>>), X),
      LongForm(FIVE, X),
      LongForm(A, FIVE),
      LongFormEnvs(A, X, PROD),
      LongFormEnvs(A, X, PyList(<<FIVE>>)),
      ShortForm(FIVE, X),
      ShortForm(B, FIVE) }

\* entries of no recognized shape
UnshapedEntries ==
    { PyDict(<<Item(ISTAG, A)>>),
      PyDict(<<Item(FROM, X)>>),
      PyDict(<<Item(ISTAG, A), Item(ENVS, PyList(<<PROD>>))>>),
      PyDict(<<Item(A, X), Item(B, Y)>>),
      PyDict(<<Item(ENVS, PyList(<<PROD>>))>>),
      PyDict(<<>>),
      NotDict(A) }

Entries == ShapedEntries \cup UnshapedEntries

OldItems ==
    { Item(A, X), Item(PyStr(<<"a">> \o LATEST), Y), Item(B1, EMPTY),
      Item(FIVE, X), Item(B, FIVE) }

NoImages == [has |-> FALSE, t |-> "none", d |-> <<>>, e |-> <<>>]

Scalar(type) == [has |-> TRUE, t |-> type, d |-> <<>>, e |-> <<>>]

OldStyle(items) == [has |-> TRUE, t |-> "dict", d |-> items, e |-> <<>>]

NewStyle(entries) == [has |-> TRUE, t |-> "list", d |-> <<>>, e |-> entries]

DistinctKeys(items) ==
    \A i, j \in 1..Len(items) : i # j => items[i].k # items[j].k

\* one image with each tag, in each of the three shapes
TagConfigs ==
    UNION { { OldStyle(<<Item(PyStr(tag), X)>>),
              NewStyle(<<LongForm(PyStr(tag), X)>>),
              NewStyle(<<ShortForm(PyStr(tag), X)>>) } : tag \in Tags }

Configs ==
    {NoImages} \cup {Scalar(type) : type \in {"str", "int", "none"}}
        \cup {OldStyle(items) : items \in {s \in SeqsUpTo(OldItems, MaxImages) : DistinctKeys(s)}}
        \cup {NewStyle(entries) : entries \in SeqsUpTo(Entries, MaxImages)}
        \cup TagConfigs

EnvNames == SUBSET {PROD, DEV}

-----------------------------------------------------------------------------

Init ==
    /\ config \in Configs
    /\ env_names \in EnvNames
    /\ pc = "start"
    /\ images = <<>>
    /\ idx = 1
    /\ calls = <<>>
    /\ logs = <<>>
    /\ imported_istags = <<>>
    /\ exc = NoException

Next == ParseConfig \/ ImportImage \/ SkipImage \/ ReturnNone

Spec == Init /\ [][Next]_vars

-----------------------------------------------------------------------------
\* Vocabulary of the properties

Range(seq) == {seq[i] : i \in 1..Len(seq)}

IsImport(k) == calls[k].oc.cmd = "import-image"

IsRetag(k) == calls[k].oc.cmd = "tag"

\* the import-image invocation k failed and its text holds the conflict phrase
ConflictFailure(k) ==
    /\ IsImport(k)
    /\ calls[k].rc = "ErrorReturnCode"
    /\ IsSubstring(CONFLICT_PHRASE, calls[k].stderr)

\* the import-image invocation k failed and its text does not hold the phrase
OtherFailure(k) ==
    /\ IsImport(k)
    /\ calls[k].rc = "ErrorReturnCode"
    /\ ~IsSubstring(CONFLICT_PHRASE, calls[k].stderr)

\* the calls made while image number i of the parsed list was processed
CallsAt(i) == {k \in 1..Len(calls) : calls[k].at = i}

Parsed == pc \in {"loop", "done"}

\* the images the loop has gone through
Processed == IF Parsed THEN 1..(idx - 1) ELSE {}

\* envs is non-empty and disjoint from the active environments
Gated(img_data) ==
    /\ img_data.envs.l # <<>>
    /\ Range(img_data.envs.l) \cap env_names = {}

NotGated(img_data) == ~Gated(img_data)

Pair(istag, _from) == <<istag, _from>>

KeysOf(entry) == {entry.d[i].k : i \in 1..Len(entry.d)}

NotMapping(entry) == entry.t # "dict"

OneOfTagFrom(entry) ==
    /\ entry.t = "dict"
    /\ (ISTAG \in KeysOf(entry)) # (FROM \in KeysOf(entry))

BadShortForm(entry) ==
    /\ entry.t = "dict"
    /\ ISTAG \notin KeysOf(entry) /\ FROM \notin KeysOf(entry)
    /\ Cardinality(KeysOf(entry)) > 1 \/ ENVS \in KeysOf(entry)

SyntaxMalformed(entry) ==
    NotMapping(entry) \/ OneOfTagFrom(entry) \/ BadShortForm(entry)

ListOfStrs(v) == v.t = "list" /\ \A i \in 1..Len(v.l) : v.l[i].t = "str"

NonEmptyStr(v) == v.t = "str" /\ v.s # <<>>

\* a long-form or short-form entry whose tag, source and envs are as the
\* validation rule wants them
WellFormed(entry) ==
    /\ entry.t = "dict"
    /\ \/ /\ ISTAG \in KeysOf(entry) /\ FROM \in KeysOf(entry)
          /\ NonEmptyStr(GetItem(entry, ISTAG))
          /\ NonEmptyStr(GetItem(entry, FROM))
          /\ ENVS \in KeysOf(entry) => ListOfStrs(GetItem(entry, ENVS))
       \/ /\ Len(entry.d) = 1
          /\ KeysOf(entry) \cap {ISTAG, FROM, ENVS} = {}
          /\ NonEmptyStr(entry.d[1].k)
          /\ NonEmptyStr(entry.d[1].v)

\* a long-form or short-form entry whose tag or source is empty or not a
\* string, or whose envs is not a list of strings
InvalidField(entry) ==
    /\ entry.t = "dict"
    /\ \/ /\ ISTAG \in KeysOf(entry) /\ FROM \in KeysOf(entry)
       \/ /\ Len(entry.d) = 1
          /\ KeysOf(entry) \cap {ISTAG, FROM, ENVS} = {}
    /\ ~WellFormed(entry)

IsNewStyle == config.has /\ config.t = "list"

IsOldStyle == config.has /\ config.t = "dict"

SyntaxMessages ==
    { "entries in 'images' must be of type 'dict'",
      "Unknown syntax for 'images' section of config" }

TypeMessages ==
    { "'istag' and 'from' must be a of type 'string'",
      "keys and values in 'images' must be a of type 'string'",
      "not a list of strings" }

\* entry i is the first entry of the images list that is not well formed
FirstNotWellFormed(i) == \A j \in 1..(i - 1) : WellFormed(config.e[j])

-----------------------------------------------------------------------------
\* C1: when the import-image invocation of do_import fails and the text of
\* the failure holds the conflict phrase, exactly one re-tag invocation
\* follows it, with the same (istag, image_from) pair, no error reaches the
\* caller, and no other import-image invocation is made for that image.
C1_ConflictRetagsOnce ==
    \A k \in 1..Len(calls) :
        ConflictFailure(k) =>
            /\ k < Len(calls)
            /\ calls[k + 1].oc =
                   [cmd |-> "tag", istag |-> calls[k].oc.istag, from |-> calls[k].oc.from]
            /\ calls[k + 1].at = calls[k].at
            /\ Cardinality({j \in CallsAt(calls[k].at) : IsRetag(j)}) = 1
            /\ Cardinality({j \in CallsAt(calls[k].at) : IsImport(j)}) = 1
            /\ pc # "raised"
            /\ exc = NoException

\* the run has ended after an import that failed with the phrase inside a
\* longer message
C1_Witness ==
    /\ pc = "done"
    /\ \E k \in 1..Len(calls) :
           /\ ConflictFailure(k)
           /\ calls[k].stderr # CONFLICT_PHRASE
           /\ calls[k].oc.istag # calls[k].oc.from

\* C2: when the import-image invocation of do_import fails with a text that
\* does not hold the conflict phrase, the error propagates out of do_import
\* to the caller and no re-tag invocation is issued.
C2_OtherFailurePropagates ==
    \A k \in 1..Len(calls) :
        OtherFailure(k) =>
            /\ pc = "raised"
            /\ exc.exc = "ErrorReturnCode"
            /\ \A j \in CallsAt(calls[k].at) : ~IsRetag(j)

\* C3: an image spec gets an import-image invocation if and only if its envs
\* is empty or meets env_names; a spec whose envs is non-empty and disjoint
\* from env_names gets no invocation at all and one info-level skip log; and
\* when no invocation fails, the invocations are exactly the eligible specs,
\* one import-image each, in the order of the config.
C3_EnvGating ==
    /\ \A i \in Processed :
           /\ (\E k \in CallsAt(i) : IsImport(k)) <=> NotGated(images[i])
           /\ Gated(images[i]) =>
                  /\ CallsAt(i) = {}
                  /\ Cardinality({n \in 1..Len(logs) : logs[n].at = i}) = 1
                  /\ \E n \in 1..Len(logs) :
                         /\ logs[n].at = i
                         /\ logs[n].level = "info"
                         /\ logs[n].istag = images[i].istag
    /\ (pc = "done" /\ \A k \in 1..Len(calls) : calls[k].rc = "ok") =>
           LET eligible == SelectSeq(images, NotGated)
           IN  /\ Len(calls) = Len(eligible)
               /\ \A k \in 1..Len(calls) :
                      calls[k].oc = [cmd |-> "import-image",
                                     istag |-> eligible[k].istag,
                                     from |-> eligible[k].from]

\* a run without failures has ended in which one spec was skipped and
\* another was imported because one of its several envs is active
C3_Witness ==
    /\ pc = "done"
    /\ \A k \in 1..Len(calls) : calls[k].rc = "ok"
    /\ \E i, j \in 1..Len(images) :
           /\ Gated(images[i])
           /\ Len(images[j].envs.l) > 1
           /\ NotGated(images[j])
           /\ \E k \in CallsAt(j) : IsImport(k)

\* C4: once the import of an image fails with a text that does not hold the
\* conflict phrase, no import-image and no re-tag invocation is issued for
\* an image that comes later in the sequence.
C4_AbortsAfterOtherFailure ==
    \A k \in 1..Len(calls) :
        OtherFailure(k) =>
            \A j \in 1..Len(calls) : calls[j].at <= calls[k].at

\* C5: every do_import call records its tag in imported_istags, whatever
\* its outcome, so that a later call with the same tag logs the
\* duplicate-import warning, raises nothing and still invokes import-image.
C5_TagsRecorded ==
    /\ \A k \in 1..Len(calls) :
           IsImport(k) => InSeq(calls[k].oc.istag, imported_istags)
    /\ \A j, k \in 1..Len(calls) :
           (j < k /\ IsImport(j) /\ IsImport(k)
                /\ calls[j].oc.istag = calls[k].oc.istag
                /\ calls[j].at # calls[k].at) =>
               /\ \E n \in 1..Len(logs) :
                      /\ logs[n].at = calls[k].at
                      /\ logs[n].msg = "already imported"
                      /\ logs[n].istag = calls[k].oc.istag
               /\ pc # "raised"


\* C6: when the images list holds a malformed entry at any position, such as
\* a dict with the tag key and no "from", import_images raises the config
\* error before any external invocation: no import-image and no re-tag is
\* issued, not even for well-formed entries that come before it.
C6_MalformedBeforeInvocation ==
    \A i \in 1..Len(config.e) :
        (IsNewStyle /\ SyntaxMalformed(config.e[i])) =>
            /\ calls = <<>>
            /\ pc \in {"start", "raised"}
            /\ (pc = "raised" /\ FirstNotWellFormed(i)) =>
                   /\ exc.exc = "ValueError"
                   /\ exc.msg \in SyntaxMessages

\* import_images has raised on a list whose first entry is well formed and
\* active, and whose second entry has the tag key and no "from"
C6_Witness ==
    /\ pc = "raised"
    /\ IsNewStyle
    /\ Len(config.e) = 2
    /\ WellFormed(config.e[1])
    /\ ~HasKey(config.e[1], ENVS)
    /\ HasKey(config.e[2], ISTAG)
    /\ OneOfTagFrom(config.e[2])

\* C7: for a list-shaped images section, parse_config raises the syntax
\* error when an entry is not a mapping, holds exactly one of "istag" and
\* "from", or is a short-form candidate with more than one key or with a
\* reserved key; it never returns an ImageSpec for such an entry.
C7_SyntaxErrors ==
    (IsNewStyle /\ pc # "start") =>
        /\ (\E i \in 1..Len(config.e) : NotMapping(config.e[i])) =>
               pc = "raised" /\ images = <<>>
        /\ (\E i \in 1..Len(config.e) : OneOfTagFrom(config.e[i])) =>
               pc = "raised" /\ images = <<>>
        /\ (\E i \in 1..Len(config.e) : BadShortForm(config.e[i])) =>
               pc = "raised" /\ images = <<>>
        /\ \A i \in 1..Len(config.e) :
               (SyntaxMalformed(config.e[i]) /\ FirstNotWellFormed(i)) =>
                   /\ exc.exc = "ValueError"
                   /\ exc.msg = IF NotMapping(config.e[i])
                                THEN "entries in 'images' must be of type 'dict'"
                                ELSE "Unknown syntax for 'images' section of config"

\* parse_config has raised on a list that holds an entry with a reserved key
\* alone and an entry that is not a mapping
C7_Witness ==
    /\ pc = "raised"
    /\ IsNewStyle
    /\ \E i, j \in 1..Len(config.e) :
           /\ OneOfTagFrom(config.e[i]) \/ BadShortForm(config.e[i])
           /\ Len(config.e[i].d) = 1
           /\ NotMapping(config.e[j])

\* C8: parse_config returns an empty sequence only when the config has no
\* images section (or an images section that holds no image); when the
\* images section is present and is neither a mapping nor a sequence,
\* parse_config raises the syntax error and import_images attempts no import.
C8_ScalarSectionRejected ==
    /\ (Parsed /\ images = <<>>) =>
           \/ ~config.has
           \/ IsOldStyle /\ config.d = <<>>
           \/ IsNewStyle /\ config.e = <<>>
    /\ (config.has /\ config.t \notin {"dict", "list"} /\ pc # "start") =>
           /\ pc = "raised"
           /\ exc.exc = "ValueError"
           /\ calls = <<>>

\* C9: every ImageSpec parse_config returns has a tag and a source that are
\* non-empty strings and an envs that is a list of strings; an input whose
\* tag or source is empty or not a string, or whose envs is not a list of
\* strings, makes parse_config raise the validation error.
C9_ValidatedFields ==
    /\ Parsed =>
           \A i \in 1..Len(images) :
               /\ NonEmptyStr(images[i].istag)
               /\ NonEmptyStr(images[i].from)
               /\ ListOfStrs(images[i].envs)
    /\ (IsNewStyle /\ pc # "start") =>
           \A i \in 1..Len(config.e) :
               (InvalidField(config.e[i]) /\ FirstNotWellFormed(i)) =>
                   /\ pc = "raised"
                   /\ exc.exc = "ValueError"
                   /\ exc.msg \in TypeMessages
    /\ (IsOldStyle /\ pc # "start") =>
           \A i \in 1..Len(config.d) :
               (~NonEmptyStr(config.d[i].k) \/ ~NonEmptyStr(config.d[i].v)) =>
                   /\ pc = "raised"
                   /\ exc.exc = "ValueError"
                   /\ exc.msg \in TypeMessages

\* the tag the config gives for image number i of a parsed config
InputTag(i) ==
    IF IsOldStyle THEN config.d[i].k
    ELSE IF HasKey(config.e[i], ISTAG) THEN GetItem(config.e[i], ISTAG)
    ELSE config.e[i].d[1].k

HasColon(chars) == ":" \in Range(chars)

\* C10: in the legacy mapping, the long form and the short form alike, a tag
\* string without ":" comes out as tag + ":latest" and a tag string with
\* ":" comes out unchanged; hence every tag parse_config returns holds ":",
\* and normalizing it again changes nothing.
C10_TagNormalized ==
    Parsed =>
        \A i \in 1..Len(images) :
            /\ InputTag(i).t = "str" =>
                   images[i].istag.s = IF HasColon(InputTag(i).s)
                                       THEN InputTag(i).s
                                       ELSE InputTag(i).s \o LATEST
            /\ HasColon(images[i].istag.s)
            /\ _parse_istag(images[i].istag) = Return(images[i].istag)

\* a config was parsed in which one tag string had no ":" and another had
\* one that is not the last character
C10_Witness ==
    /\ Parsed
    /\ \E i, j \in 1..Len(images) :
           /\ InputTag(i).t = "str" /\ ~HasColon(InputTag(i).s)
           /\ InputTag(j).t = "str" /\ HasColon(InputTag(j).s)
           /\ images[j].istag = InputTag(j)
           /\ images[i].istag.s = InputTag(i).s \o LATEST

====
